---- MODULE Spec2Model ----
(***************************************************************************)
(* Model of src/final.py: the pandas-based statistics operations of the    *)
(* first DataHandler class (filter, derive, rank), the regular-expression  *)
(* team-code extraction, and the sqlite3 export create_database.           *)
(*                                                                         *)
(* A DataFrame is modelled column-wise, as pandas stores it: a sequence of *)
(* row labels (the index) and, per column name, a sequence of values.      *)
(* A Series is an index with one sequence of values.                       *)
(*                                                                         *)
(* final.py binds the name DataHandler four times. The operations below    *)
(* are the method bodies as written where they are defined; the functions  *)
(* of the module that look a method up through the name DataHandler when   *)
(* they are called find the last class, which has create_database only.    *)
(*                                                                         *)
(* ret records the last call: the operation, the frame, text or batch it   *)
(* was handed (arg), its other argument (param; for create_database the    *)
(* rows the table held before the call), the exception it raised and what  *)
(* it returned.                                                            *)
(***************************************************************************)
EXTENDS Integers, Sequences, FiniteSets, TLC

VARIABLES skaters, goalies, db, leaked, ret

vars == <<skaters, goalies, db, leaked, ret>>

(* ------------------------------ bounds --------------------------------- *)

\* Largest number of rows of a CSV file, and of objects in a batch.
MaxRows == 2
\* Largest goals-plus-assists total of a skater row, and largest SV and SA of
\* a goalie row.
MaxStat == 1
\* Longest text handed to extract_team_code.
MaxLen == 6
\* Most rows the players table holds before the model stops saving.
MaxDbRows == 2
\* Most connections left open at the same time before the model stops saving.
MaxLeaked == 2

(* ------------------------------ values --------------------------------- *)

Names == {"A", "B"}
\* Each player of the sample files plays one position.
PosOf == [name \in Names |-> IF name = "A" THEN "Forward" ELSE "Defense"]
\* The positions a caller asks filter_skaters_by_position for.
RequestedRoles == {"Forward", "Defense", "Goalie", "Center"}
NRange == (0 - (MaxRows + 1)) .. (MaxRows + 1)

SeqsUpTo(S, n) == UNION {[1..k -> S] : k \in 0..n}

Min(a, b) == IF a <= b THEN a ELSE b
Max(a, b) == IF a >= b THEN a ELSE b

\* Python's None.
None == [some |-> FALSE, group |-> <<>>]
Some(g) == [some |-> TRUE, group |-> g]

(* --------------------------- float64 values ---------------------------- *)
\* The result of numpy's true division of two int64: a finite quotient n/d,
\* +infinity, or NaN.
Quot(n, d) == [kind |-> "num", n |-> n, d |-> d]
Inf == [kind |-> "inf", n |-> 0, d |-> 0]
NaN == [kind |-> "nan", n |-> 0, d |-> 0]

\* goalies['SV'] / goalies['SA'], one element: x/0 is inf for x > 0 and NaN
\* for x = 0; nothing is raised.
TrueDiv(sv, sa) ==
    IF sa # 0 THEN Quot(sv, sa)
    ELSE IF sv = 0 THEN NaN
    ELSE Inf

\* Column dtypes: SavePercentage is float64, every other sort key is int64.
IsFloatCol(by) == by = "SavePercentage"

IsNaN(by, v) == IsFloatCol(by) /\ v.kind = "nan"

\* x > y on the values of column `by` (neither is NaN).
Gt(by, x, y) ==
    IF IsFloatCol(by)
    THEN \/ x.kind = "inf" /\ y.kind = "num"
         \/ x.kind = "num" /\ y.kind = "num" /\ x.n * y.d > y.n * x.d
    ELSE x > y

(* ------------------------------ frames --------------------------------- *)

Rows(frame) == Len(frame.index)
Columns(frame) == DOMAIN frame.cols

EmptyFrame == [index |-> <<>>, cols |-> <<>>]

\* pd.read_csv of a skaters file: a RangeIndex 0..n-1 and the file's columns.
SkaterFrame(rows) ==
    [index |-> [i \in 1..Len(rows) |-> i - 1],
     cols  |-> [c \in {"Player Name", "Team", "Pos", "G", "A", "PIM", "Hits"} |->
                 [i \in 1..Len(rows) |->
                    CASE c = "Player Name" -> rows[i].name
                      [] c = "Team" -> "BOS"
                      [] c = "Pos" -> PosOf[rows[i].name]
                      [] c = "G" -> rows[i].g
                      [] c = "A" -> rows[i].a
                      [] c = "PIM" -> 0
                      [] c = "Hits" -> 0]]]

SkaterRows == {r \in [name : Names, g : 0..MaxStat, a : 0..MaxStat] : r.g + r.a <= MaxStat}

read_skaters_data == {SkaterFrame(rows) : rows \in SeqsUpTo(SkaterRows, MaxRows)}

\* pd.read_csv of a goalies file.
GoalieFrame(rows) ==
    [index |-> [i \in 1..Len(rows) |-> i - 1],
     cols  |-> [c \in {"Player Name", "Team", "SV", "SA"} |->
                 [i \in 1..Len(rows) |->
                    CASE c = "Player Name" -> rows[i].name
                      [] c = "Team" -> "BOS"
                      [] c = "SV" -> rows[i].sv
                      [] c = "SA" -> rows[i].sa]]]

GoalieRows == [name : Names, sv : 0..MaxStat, sa : 0..MaxStat]

read_goalies_data == {GoalieFrame(rows) : rows \in SeqsUpTo(GoalieRows, MaxRows)}

\* frame[name]: a Series sharing the frame's index.
Column(frame, name) == [index |-> frame.index, values |-> frame.cols[name]]

\* The value a Series holds at a row label (labels are unique).
ValueAt(series, label) ==
    series.values[CHOOSE j \in 1..Len(series.index) : series.index[j] = label]

\* frame[name] = series: pandas aligns the series on the frame's index.
SetColumn(frame, name, series) ==
    [frame EXCEPT !.cols =
        (name :> [i \in 1..Rows(frame) |-> ValueAt(series, frame.index[i])])
        @@ frame.cols]

\* frame[[names]]: the listed columns, same rows.
Project(frame, names) ==
    [index |-> frame.index, cols |-> [c \in names |-> frame.cols[c]]]

\* frame.iloc[positions]: the rows at the given positions, in that order.
Take(frame, positions) ==
    [index |-> [k \in 1..Len(positions) |-> frame.index[positions[k]]],
     cols  |-> [c \in Columns(frame) |->
                 [k \in 1..Len(positions) |-> frame.cols[c][positions[k]]]]]

\* The positions of the TRUE entries of a boolean mask, ascending.
RECURSIVE MaskPositions(_, _)
MaskPositions(mask, i) ==
    IF i > Len(mask) THEN <<>>
    ELSE IF mask[i] THEN <<i>> \o MaskPositions(mask, i + 1)
    ELSE MaskPositions(mask, i + 1)

\* frame.head(n): frame.iloc[:n], so a negative n drops the last -n rows.
head(frame, n) ==
    LET k == IF n >= 0 THEN Min(n, Rows(frame)) ELSE Max(0, Rows(frame) + n)
    IN  Take(frame, [i \in 1..k |-> i])

\* The orders frame.sort_values(by=by, ascending=False) can produce. The
\* default kind is quicksort, which is not stable: rows with equal keys come
\* out in an order the numpy build decides. NaN keys go last
\* (na_position='last'), in their original order.
SortOrders(frame, by) ==
    LET n == Rows(frame)
        key == frame.cols[by]
    IN  {p \in [1..n -> 1..n] :
           /\ \A i, j \in 1..n : i # j => p[i] # p[j]
           /\ \A i, j \in 1..n : i < j =>
                \/ IsNaN(by, key[p[j]]) /\ (IsNaN(by, key[p[i]]) => p[i] < p[j])
                \/ /\ ~IsNaN(by, key[p[i]])
                   /\ ~IsNaN(by, key[p[j]])
                   /\ ~Gt(by, key[p[j]], key[p[i]])}

(* ----------------------------- results --------------------------------- *)

\* What the last call was handed and what it gave back: the value returned,
\* or the exception raised ("" when it returned).
Returned(op, arg, param, value) ==
    [op |-> op, arg |-> arg, param |-> param, raised |-> "", value |-> value]
Raised(op, arg, param, exc) ==
    [op |-> op, arg |-> arg, param |-> param, raised |-> exc, value |-> None]

NoCall == Returned("", None, None, None)

\* The frames a caller hands to an operation: the one it read (and holds),
\* or the subset a filter just returned to it, as analyze_skaters does.
Sources ==
    {"held"} \cup (IF ret.op = "filter_skaters_by_position" /\ ret.raised = ""
                   THEN {"returned"} ELSE {})
Operand(src, held) == IF src = "held" THEN held ELSE ret.value

(* ------------------------- DataHandler (skaters) ----------------------- *)

\* skaters[skaters['Pos'] == position]
filter_skaters_by_position(frame, position) ==
    Take(frame, MaskPositions([i \in 1..Rows(frame) |-> frame.cols["Pos"][i] = position], 1))

\* A derivation that forgets the assists: skaters['G'] alone.
SeriesAddGoalsOnly(s1, s2) == s1

\* skaters['G'] + skaters['A']: element-wise on aligned row labels.
SeriesAdd(s1, s2) ==
    [index  |-> s1.index,
     values |-> [i \in 1..Len(s1.index) |-> s1.values[i] + ValueAt(s2, s1.index[i])]]

\* The frame after skaters['Points'] = skaters['G'] + skaters['A'].
WithPoints(frame) ==
    SetColumn(frame, "Points", SeriesAdd(Column(frame, "G"), Column(frame, "A")))

\* What calculate_points returns: skaters[['Player Name', 'Points']].
calculate_points(frame) == Project(WithPoints(frame), {"Player Name", "Points"})

\* The attributes of the class the name DataHandler is bound to once the
\* module is loaded: the last class statement of that name wins.
DataHandlerAttrs == {"create_database"}

\* skaters_analysis prints the first rows of the ranking.
TopGoalScorers == 10

Init ==
    /\ skaters = EmptyFrame
    /\ goalies = EmptyFrame
    /\ db = [exists |-> FALSE, rows |-> <<>>]
    /\ leaked = <<>>
    /\ ret = NoCall

\* An analysis is one pass over one file: it reads the file, then filters and
\* derives, in either order, and ranks last; nothing follows the ranking.
ReadSkaters ==
    /\ ret.op = ""
    /\ \E frame \in read_skaters_data :
        /\ skaters' = frame
        /\ ret' = Returned("read_skaters_data", None, None, frame)
        /\ UNCHANGED <<goalies, db, leaked>>

FilterSkatersByPosition ==
    /\ ret.op \in {"read_skaters_data", "calculate_points"}
    /\ \E position \in RequestedRoles :
        LET frame == skaters IN
        /\ ret' = IF "Pos" \notin Columns(frame)
                  THEN Raised("filter_skaters_by_position", frame, position, "KeyError")
                  ELSE Returned("filter_skaters_by_position", frame, position,
                                filter_skaters_by_position(frame, position))
        /\ UNCHANGED <<skaters, goalies, db, leaked>>

CalculatePoints ==
    /\ ret.op \in {"read_skaters_data", "filter_skaters_by_position"}
    /\ \E src \in Sources :
        LET frame == Operand(src, skaters) IN
        /\ IF {"G", "A", "Player Name"} \subseteq Columns(frame)
           THEN /\ ret' = Returned("calculate_points", frame, None, calculate_points(frame))
                /\ skaters' = IF src = "held" THEN WithPoints(frame) ELSE skaters
                /\ UNCHANGED <<goalies, db, leaked>>
           ELSE /\ ret' = Raised("calculate_points", frame, None, "KeyError")
                /\ UNCHANGED <<skaters, goalies, db, leaked>>

TopPlayersByPoints ==
    /\ ret.op \in {"read_skaters_data", "filter_skaters_by_position", "calculate_points"}
    /\ \E src \in Sources, n \in NRange :
        LET frame == Operand(src, skaters) IN
        /\ IF "Points" \notin Columns(frame)
           THEN ret' = Raised("top_players_by_points", frame, n, "KeyError")
           ELSE \E p \in SortOrders(frame, "Points") :
                  ret' = Returned("top_players_by_points", frame, n,
                                  head(Take(frame, p), n))
        /\ UNCHANGED <<skaters, goalies, db, leaked>>

\* skaters_analysis: read, derive in line, rank, print the name and points of
\* the first ten. Its first statement looks up read_skaters_data on the
\* class DataHandler names at call time.
SkatersAnalysis ==
    /\ ret.op = ""
    /\ IF "read_skaters_data" \notin DataHandlerAttrs
       THEN ret' = Raised("skaters_analysis", None, None, "AttributeError")
       ELSE \E frame \in read_skaters_data :
              \E p \in SortOrders(WithPoints(frame), "Points") :
                ret' = Returned("skaters_analysis", frame, None,
                                Project(head(Take(WithPoints(frame), p), TopGoalScorers),
                                        {"Player Name", "Points"}))
    /\ UNCHANGED <<skaters, goalies, db, leaked>>

SkaterNext ==
    \/ ReadSkaters
    \/ FilterSkatersByPosition
    \/ CalculatePoints
    \/ TopPlayersByPoints
    \/ SkatersAnalysis

SpecSkaters == Init /\ [][SkaterNext]_vars

(* ------------------------- DataHandler (goalies) ----------------------- *)

\* goalies['SV'] / goalies['SA']: element-wise true division on aligned labels.
SeriesTrueDiv(s1, s2) ==
    [index  |-> s1.index,
     values |-> [i \in 1..Len(s1.index) |-> TrueDiv(s1.values[i], ValueAt(s2, s1.index[i]))]]

\* The frame after goalies['SavePercentage'] = goalies['SV'] / goalies['SA'].
WithSavePercentage(frame) ==
    SetColumn(frame, "SavePercentage",
              SeriesTrueDiv(Column(frame, "SV"), Column(frame, "SA")))

\* What calculate_save_percentage returns: goalies[['Player Name', 'SavePercentage']].
calculate_save_percentage(frame) ==
    Project(WithSavePercentage(frame), {"Player Name", "SavePercentage"})

ReadGoalies ==
    /\ ret.op = ""
    /\ \E frame \in read_goalies_data :
        /\ goalies' = frame
        /\ ret' = Returned("read_goalies_data", None, None, frame)
        /\ UNCHANGED <<skaters, db, leaked>>

CalculateSavePercentage ==
    /\ ret.op = "read_goalies_data"
    /\ ret' = Returned("calculate_save_percentage", goalies, None,
                       calculate_save_percentage(goalies))
    /\ goalies' = WithSavePercentage(goalies)
    /\ UNCHANGED <<skaters, db, leaked>>

TopGoaliesBySavePercentage ==
    /\ ret.op \in {"read_goalies_data", "calculate_save_percentage"}
    /\ \E n \in NRange :
        /\ IF "SavePercentage" \notin Columns(goalies)
           THEN ret' = Raised("top_goalies_by_save_percentage", goalies, n, "KeyError")
           ELSE \E p \in SortOrders(goalies, "SavePercentage") :
                  ret' = Returned("top_goalies_by_save_percentage", goalies, n,
                                  head(Take(goalies, p), n))
        /\ UNCHANGED <<skaters, goalies, db, leaked>>

GoalieNext ==
    \/ ReadGoalies
    \/ CalculateSavePercentage
    \/ TopGoaliesBySavePercentage

SpecGoalies == Init /\ [][GoalieNext]_vars

(* --------------------------- extract_team_code ------------------------- *)

\* The characters of the sample texts: parentheses, two capitals, a digit.
Chars == {"(", ")", "A", "B", "1"}

\* [A-Z] in a str pattern without flags: the 26 ASCII capitals.
Upper == {"A", "B", "C", "D", "E", "F", "G", "H", "I", "J", "K", "L", "M",
          "N", "O", "P", "Q", "R", "S", "T", "U", "V", "W", "X", "Y", "Z"}

\* [A-Z]+ is greedy: the first position at or after i that holds no capital.
RECURSIVE RunEnd(_, _)
RunEnd(text, i) ==
    IF i <= Len(text) /\ text[i] \in Upper THEN RunEnd(text, i + 1) ELSE i

\* Whether \(([A-Z]+)\) matches at position i. Backing off from the greedy
\* run cannot help: a shorter run is followed by a capital, never by ")".
MatchAt(text, i) ==
    LET e == RunEnd(text, i + 1)
    IN  /\ text[i] = "("
        /\ e > i + 1
        /\ e <= Len(text)
        /\ text[e] = ")"

\* re.search: the match at the leftmost position that has one; group(1).
RECURSIVE re_search(_, _)
re_search(text, i) ==
    IF i > Len(text) THEN None
    ELSE IF MatchAt(text, i) THEN Some(SubSeq(text, i + 1, RunEnd(text, i + 1) - 1))
    ELSE re_search(text, i + 1)

\* A search that keeps the rightmost match instead of the leftmost.
RECURSIVE re_search_last(_, _)
re_search_last(text, i) ==
    IF i < 1 THEN None
    ELSE IF MatchAt(text, i) THEN Some(SubSeq(text, i + 1, RunEnd(text, i + 1) - 1))
    ELSE re_search_last(text, i - 1)

extract_team_code_last(player_info) == re_search_last(player_info, Len(player_info))

extract_team_code(player_info) ==
    LET match == re_search(player_info, 1)
    IN  IF match.some THEN Some(match.group) ELSE None

ExtractTeamCode ==
    /\ ret.op = ""
    /\ \E player_info \in SeqsUpTo(Chars, MaxLen) :
        /\ ret' = Returned("extract_team_code", player_info, None,
                           extract_team_code(player_info))
        /\ UNCHANGED <<skaters, goalies, db, leaked>>

SpecTeamCode == Init /\ [][ExtractTeamCode]_vars

(* --------------------------- create_database --------------------------- *)

\* The objects a batch can hold: Player and Goalie instances, and objects of
\* another type that carry the attributes the INSERT reads.
PlayerObjects == [cls : {"Player", "Goalie", "Row"}, name : Names]

\* The attributes an object has. Player.__init__ sets name, team, position,
\* goals and penalty_minutes; Goalie.__init__ hands its country to Player as
\* the team and adds saves and goals_allowed.
Attributes(obj) ==
    CASE obj.cls = "Player" -> {"name", "team", "position", "goals", "penalty_minutes"}
      [] obj.cls = "Goalie" -> {"name", "team", "position", "goals", "penalty_minutes",
                                "saves", "goals_allowed"}
      [] obj.cls = "Row" -> {"name", "country", "position", "goals", "penalty_minutes"}

\* The tuple the INSERT binds.
InsertRow(obj) ==
    [name |-> obj.name, country |-> "CAN", position |-> "Forward",
     goals |-> 0, penalty_minutes |-> 0]

\* Another connection holds the write lock: it inserted and never committed.
WriteLocked == \E k \in 1..Len(leaked) : leaked[k] # <<>>

\* The for loop from row i on, with the rows inserted so far pending in the
\* connection's open transaction. Gives the pending rows, the exception that
\* ended the loop ("" when it ran to its end) and the row it ended at.
RECURSIVE InsertLoop(_, _, _)
InsertLoop(players, i, pending) ==
    IF i > Len(players) THEN [pending |-> pending, raised |-> "", row |-> 0]
    ELSE IF "country" \notin Attributes(players[i])
    THEN [pending |-> pending, raised |-> "AttributeError", row |-> i]
    ELSE IF WriteLocked
    THEN [pending |-> pending, raised |-> "OperationalError", row |-> i]
    ELSE InsertLoop(players, i + 1, Append(pending, InsertRow(players[i])))

\* create_database, from connect to its exit. ddlFails: the store refuses the
\* CREATE TABLE (an OperationalError, e.g. a file that cannot be written).
\* Nothing catches an exception, so commit and close are skipped when
\* one is raised and the connection stays open with its rows pending.
create_database(players, ddlFails) ==
    IF ddlFails
    THEN [exists |-> db.exists, committed |-> <<>>, raised |-> "OperationalError",
          row |-> 0, open |-> TRUE, pending |-> <<>>]
    ELSE LET loop == InsertLoop(players, 1, <<>>)
         IN  IF loop.raised # ""
             THEN [exists |-> TRUE, committed |-> <<>>, raised |-> loop.raised,
                   row |-> loop.row, open |-> TRUE, pending |-> loop.pending]
             ELSE [exists |-> TRUE, committed |-> loop.pending, raised |-> "",
                   row |-> 0, open |-> FALSE, pending |-> <<>>]

CreateDatabase ==
    /\ Len(leaked) < MaxLeaked
    /\ \E players \in SeqsUpTo(PlayerObjects, MaxRows), ddlFails \in BOOLEAN :
        LET out == create_database(players, ddlFails) IN
        /\ Len(db.rows) + Len(players) <= MaxDbRows
        /\ db' = [exists |-> out.exists, rows |-> db.rows \o out.committed]
        /\ leaked' = IF out.open THEN Append(leaked, out.pending) ELSE leaked
        /\ ret' = [op |-> "create_database", arg |-> players, param |-> db.rows,
                   raised |-> out.raised,
                   value |-> [row |-> out.row, open |-> out.open]]
        /\ UNCHANGED <<skaters, goalies>>

\* The interpreter reclaims a connection object nothing refers to any more:
\* sqlite3 closes it, which rolls its pending rows back.
CollectConnection ==
    \E k \in 1..Len(leaked) :
        /\ leaked' = SubSeq(leaked, 1, k - 1) \o SubSeq(leaked, k + 1, Len(leaked))
        /\ UNCHANGED <<skaters, goalies, db, ret>>

StoreNext ==
    \/ CreateDatabase
    \/ CollectConnection

SpecStore == Init /\ [][StoreNext]_vars

(* ============================== claims ================================= *)

\* The roles the specification knows; "Center" is none of them.
KnownRoles == {"Forward", "Defense", "Goalie"}

\* Code-point order of the sample names.
NameOrd(name) == IF name = "A" THEN 1 ELSE 2

\* The position of a row label in a frame's index.
PosOfLabel(frame, label) == CHOOSE j \in 1..Rows(frame) : frame.index[j] = label

\* C1: every row of the derive step's result carries the name of the input
\* row with the same label and, as points, exactly that row's goals plus
\* assists; calculate_points returns one row per input row.
C1_PointsAreGoalsPlusAssists ==
    (ret.op \in {"calculate_points", "skaters_analysis"} /\ ret.raised = "") =>
        /\ ret.op = "calculate_points" => ret.value.index = ret.arg.index
        /\ \A i \in 1..Rows(ret.value) :
             \E j \in 1..Rows(ret.arg) :
                /\ ret.arg.index[j] = ret.value.index[i]
                /\ ret.value.cols["Player Name"][i] = ret.arg.cols["Player Name"][j]
                /\ ret.value.cols["Points"][i] = ret.arg.cols["G"][j] + ret.arg.cols["A"][j]

\* C1 witness: calculate_points has derived <<1, 1>> for a two-row frame whose
\* first row has a goal and no assist and whose second has an assist and no goal.
C1_Witness ==
    /\ ret.op = "calculate_points"
    /\ ret.raised = ""
    /\ ret.arg.cols["G"] = <<1, 0>>
    /\ ret.arg.cols["A"] = <<0, 1>>
    /\ ret.arg.cols["Player Name"] = <<"B", "A">>
    /\ ret.value.cols["Points"] = <<1, 1>>
    /\ ret.value.cols["Player Name"] = <<"B", "A">>

\* C3 (as claimed): ranking a collection that carries the metric never raises
\* and returns min(n, |input|) rows for n >= 0 and no row for n <= 0.
C3_TopNLength ==
    (ret.op = "top_players_by_points" /\ "Points" \in Columns(ret.arg)) =>
        /\ ret.raised = ""
        /\ Rows(ret.value) = IF ret.param >= 0 THEN Min(ret.param, Rows(ret.arg)) ELSE 0

\* C4 (as claimed): the ranking is in descending order of the metric, and rows
\* with equal metric are in ascending name order.
C4_TotalOrder ==
    (ret.op = "top_players_by_points" /\ ret.raised = "") =>
        \A i, j \in 1..Rows(ret.value) : i < j =>
            \/ ret.value.cols["Points"][i] > ret.value.cols["Points"][j]
            \/ /\ ret.value.cols["Points"][i] = ret.value.cols["Points"][j]
               /\ NameOrd(ret.value.cols["Player Name"][i])
                    <= NameOrd(ret.value.cols["Player Name"][j])

\* C9 (as claimed): filtering by a known role returns exactly the rows of that
\* role in their original order; any other role fails with InvalidRoleError.
C9_FilterByRole ==
    ret.op = "filter_skaters_by_position" =>
        IF ret.param \in KnownRoles
        THEN /\ ret.raised = ""
             /\ {ret.value.index[i] : i \in 1..Rows(ret.value)}
                  = {ret.arg.index[j] : j \in {k \in 1..Rows(ret.arg) :
                                                ret.arg.cols["Pos"][k] = ret.param}}
             /\ \A i, j \in 1..Rows(ret.value) : i < j =>
                  PosOfLabel(ret.arg, ret.value.index[i]) < PosOfLabel(ret.arg, ret.value.index[j])
             /\ \A i \in 1..Rows(ret.value), c \in Columns(ret.arg) :
                  ret.value.cols[c][i] = ret.arg.cols[c][PosOfLabel(ret.arg, ret.value.index[i])]
        ELSE ret.raised = "InvalidRoleError"

\* C10 (as claimed): for every entity the derive step's result carries every
\* input field, unchanged, next to the derived one.
C10_DerivePassThrough ==
    (ret.op \in {"calculate_points", "calculate_save_percentage"} /\ ret.raised = "") =>
        \A i \in 1..Rows(ret.arg), c \in Columns(ret.arg) :
            /\ c \in Columns(ret.value)
            /\ ret.value.cols[c][i] = ret.arg.cols[c][i]


\* C2 (as claimed): computing the save percentage never raises; a goalie with
\* no shot against gets a sentinel that is no real number, not NaN and not
\* infinity; every other goalie gets saves / shots_against.
C2_UndefinedSentinel ==
    ret.op = "calculate_save_percentage" =>
        /\ ret.raised = ""
        /\ \A i \in 1..Rows(ret.arg) :
             LET sp == ret.value.cols["SavePercentage"][i] IN
             IF ret.arg.cols["SA"][i] = 0
             THEN sp.kind \notin {"num", "nan", "inf"}
             ELSE sp = Quot(ret.arg.cols["SV"][i], ret.arg.cols["SA"][i])

\* C5 (as claimed): in the ranking of goalies no goalie without a shot against
\* comes before one with shots against, and with n >= |input| every goalie
\* without a shot against is in the ranking.
C5_UndefinedLast ==
    (ret.op = "top_goalies_by_save_percentage" /\ ret.raised = "") =>
        /\ \A i, j \in 1..Rows(ret.value) : i < j =>
             ~(ret.value.cols["SA"][i] = 0 /\ ret.value.cols["SA"][j] > 0)
        /\ ret.param >= Rows(ret.arg) =>
             \A j \in 1..Rows(ret.arg) : ret.arg.cols["SA"][j] = 0 =>
                \E i \in 1..Rows(ret.value) : ret.value.index[i] = ret.arg.index[j]

\* The parenthesized groups of one or more capitals in a text, as pairs of
\* the positions of "(" and ")".
TeamGroups(text) ==
    {g \in (1..Len(text)) \X (1..Len(text)) :
        /\ g[1] + 1 < g[2]
        /\ text[g[1]] = "("
        /\ text[g[2]] = ")"
        /\ \A k \in (g[1] + 1)..(g[2] - 1) : text[k] \in Upper}

\* C6: extract_team_code returns the letters of the first parenthesized group
\* of one or more ASCII capitals, later groups ignored, and None when the
\* text has no such group; it never raises.
C6_FirstTeamCode ==
    ret.op = "extract_team_code" =>
        /\ ret.raised = ""
        /\ IF TeamGroups(ret.arg) = {}
           THEN ret.value = None
           ELSE \E g \in TeamGroups(ret.arg) :
                  /\ \A h \in TeamGroups(ret.arg) : g[1] <= h[1]
                  /\ ret.value = Some(SubSeq(ret.arg, g[1] + 1, g[2] - 1))

\* C6 witness: a text with two team groups, "(A)(B)", gave the first one.
C6_Witness ==
    /\ ret.op = "extract_team_code"
    /\ ret.arg = <<"(", "A", ")", "(", "B", ")">>
    /\ ret.value = Some(<<"A">>)

\* C7 (as claimed): after a save the table holds all rows of the batch or none
\* of them next to what it held before, and a failed save has committed nothing
\* and is reported as a PersistenceError naming the failing row.
C7_AtomicSave ==
    ret.op = "create_database" =>
        /\ \/ db.rows = ret.param
           \/ db.rows = ret.param \o [i \in 1..Len(ret.arg) |-> InsertRow(ret.arg[i])]
        /\ ret.raised # "" =>
             /\ db.rows = ret.param
             /\ ret.raised = "PersistenceError"
             /\ ret.value.row \in 1..Len(ret.arg)

\* C8 (as claimed): no save call has finished with its connection still open.
C8_ConnectionReleased ==
    /\ ret.op = "create_database" => ~ret.value.open
    /\ leaked = <<>>

====
